---- MODULE Spec2Model ----
(***************************************************************************)
(* Model of the retrieval engine RAGSystem                                 *)
(* (src/tyt-ayt-backend-only/utils/database.js, lines 712-1040).  Of the   *)
(* routes, three are actions of the model: the read of getDocumentStats by *)
(* GET /health (routes/health.js), GET /documents (routes/rag.js) and, in  *)
(* a specification of its own, POST /message of the chat (routes/chat.js)  *)
(* with the message list of a session; the others forward to search and    *)
(* answerQuestion, which are modelled as the calls themselves.             *)
(*                                                                         *)
(* Text is a sequence of one-character strings.  A JavaScript Number is    *)
(* an IEEE-754 binary64 value; the scores the engine computes are modelled *)
(* with correctly rounded binary64 arithmetic (round to nearest, ties to   *)
(* even) on arbitrary-precision naturals, because the claims about score   *)
(* ranges and ties depend on the rounding.                                 *)
(***************************************************************************)
EXTENDS Integers, Sequences, FiniteSets, TLC

(***************************************************************************)
(* Arbitrary-precision naturals: little-endian sequences of limbs in       *)
(* 0 .. Radix-1 without leading zero limbs; <<>> is zero.                   *)
(***************************************************************************)
Radix == 2^15

RECURSIVE BTrim(_)
BTrim(a) ==
  IF a = <<>> THEN <<>>
  ELSE IF a[Len(a)] = 0 THEN BTrim(SubSeq(a, 1, Len(a) - 1)) ELSE a

RECURSIVE BFromInt(_)
BFromInt(n) == IF n = 0 THEN <<>> ELSE <<n % Radix>> \o BFromInt(n \div Radix)

RECURSIVE BAddC(_, _, _)
BAddC(a, b, c) ==
  IF a = <<>> /\ b = <<>> THEN (IF c = 0 THEN <<>> ELSE <<c>>)
  ELSE LET x == IF a = <<>> THEN 0 ELSE Head(a)
           y == IF b = <<>> THEN 0 ELSE Head(b)
           s == x + y + c
       IN  <<s % Radix>> \o BAddC(IF a = <<>> THEN <<>> ELSE Tail(a),
                                   IF b = <<>> THEN <<>> ELSE Tail(b),
                                   s \div Radix)

BAdd(a, b) == BAddC(a, b, 0)

RECURSIVE BSubB(_, _, _)
BSubB(a, b, borrow) ==
  IF a = <<>> THEN <<>>
  ELSE LET y == IF b = <<>> THEN 0 ELSE Head(b)
           d == Head(a) - y - borrow
       IN  <<IF d < 0 THEN d + Radix ELSE d>>
             \o BSubB(Tail(a), IF b = <<>> THEN <<>> ELSE Tail(b),
                      IF d < 0 THEN 1 ELSE 0)

\* a - b for a >= b
BSub(a, b) == BTrim(BSubB(a, b, 0))

RECURSIVE BCmpFrom(_, _, _)
BCmpFrom(a, b, i) ==
  IF i = 0 THEN 0
  ELSE IF a[i] < b[i] THEN -1
  ELSE IF a[i] > b[i] THEN 1
  ELSE BCmpFrom(a, b, i - 1)

\* -1, 0, 1 as a < b, a = b, a > b
BCmp(a, b) ==
  IF Len(a) < Len(b) THEN -1
  ELSE IF Len(a) > Len(b) THEN 1
  ELSE BCmpFrom(a, b, Len(a))

RECURSIVE BMulSmallC(_, _, _)
BMulSmallC(a, d, c) ==
  IF a = <<>> THEN (IF c = 0 THEN <<>> ELSE <<c>>)
  ELSE LET p == Head(a) * d + c
       IN  <<p % Radix>> \o BMulSmallC(Tail(a), d, p \div Radix)

\* a * d for a limb d
BMulSmall(a, d) == BTrim(BMulSmallC(a, d, 0))

BShiftLimb(a) == IF a = <<>> THEN <<>> ELSE <<0>> \o a

RECURSIVE BMul(_, _)
BMul(a, b) ==
  IF b = <<>> \/ a = <<>> THEN <<>>
  ELSE BAdd(BMulSmall(a, Head(b)), BShiftLimb(BMul(a, Tail(b))))

RECURSIVE BShiftLimbs(_, _)
BShiftLimbs(a, q) == IF q = 0 THEN a ELSE BShiftLimbs(BShiftLimb(a), q - 1)

\* a * 2^k
BShl(a, k) == BShiftLimbs(BMulSmall(a, 2^(k % 15)), k \div 15)

\* floor(a / 2^k)
BShr(a, k) ==
  LET q == k \div 15
      r == k % 15
      t == IF q >= Len(a) THEN <<>> ELSE SubSeq(a, q + 1, Len(a))
  IN  BTrim([i \in 1..Len(t) |->
               (t[i] \div 2^r)
               + (IF i < Len(t) THEN (t[i + 1] % 2^r) * 2^(15 - r) ELSE 0)])

\* a mod 2^k
BLowBits(a, k) ==
  LET q == k \div 15
      r == k % 15
  IN  IF q >= Len(a) THEN a
      ELSE BTrim(SubSeq(a, 1, q) \o <<a[q + 1] % 2^r>>)

BBitLen(a) ==
  IF a = <<>> THEN 0
  ELSE 15 * (Len(a) - 1)
       + (CHOOSE k \in 1..15 : 2^(k - 1) <= a[Len(a)] /\ a[Len(a)] < 2^k)

BIsOdd(a) == a # <<>> /\ a[1] % 2 = 1

\* the largest d < 2^(bit+1) + d0, built bit by bit from d0, with b * d <= r
RECURSIVE BDigit(_, _, _, _)
BDigit(r, b, bit, d) ==
  IF bit < 0 THEN d
  ELSE IF BCmp(BMulSmall(b, d + 2^bit), r) <= 0
       THEN BDigit(r, b, bit - 1, d + 2^bit)
       ELSE BDigit(r, b, bit - 1, d)

\* <<floor(a / b), a mod b>> by long division, one limb of a at a time from
\* the top: limbs 1 .. i of a are still to be brought down, q and r are the
\* quotient and the remainder so far
RECURSIVE BDivStep(_, _, _, _, _)
BDivDigit(a, b, i, q, r2, d) ==
  IF d = 0
  THEN BDivStep(a, b, i - 1, BShiftLimb(q), r2)
  ELSE BDivStep(a, b, i - 1, BAdd(BShiftLimb(q), <<d>>), BSub(r2, BMulSmall(b, d)))

BDivDown(a, b, i, q, r2) == BDivDigit(a, b, i, q, r2, BDigit(r2, b, 14, 0))

BDivStep(a, b, i, q, r) ==
  IF i = 0 THEN <<q, r>>
  ELSE BDivDown(a, b, i, q,
                BAdd(BShiftLimb(r), IF a[i] = 0 THEN <<>> ELSE <<a[i]>>))

BDivMod(a, b) == BDivStep(a, b, Len(a), <<>>, <<>>)

\* floor(sqrt(n)) by Newton's iteration from x >= sqrt(n); y is the next iterate
RECURSIVE BSqrtStep(_, _)
BSqrtNext(n, x, y) == IF BCmp(y, x) >= 0 THEN x ELSE BSqrtStep(n, y)

BSqrtStep(n, x) == BSqrtNext(n, x, BShr(BAdd(x, BDivMod(n, x)[1]), 1))

BSqrtWithRem(n, s) == <<s, BSub(n, BMul(s, s))>>

\* <<floor(sqrt(n)), n - floor(sqrt(n))^2>>
BSqrtRem(n) ==
  IF n = <<>> THEN <<(<<>>), (<<>>)>>
  ELSE BSqrtWithRem(n, BSqrtStep(n, BShl(<<1>>, (BBitLen(n) + 1) \div 2)))

(***************************************************************************)
(* IEEE-754 binary64, the finite non-negative values: [m, e] stands for    *)
(* m * 2^e with 2^52 <= m < 2^53, and FZero for 0.  The exponent range is  *)
(* not modelled: the engine's values lie between 2^-40 and 2.              *)
(***************************************************************************)
FZero == [m |-> <<>>, e |-> 0]

\* q * 2^e for q of 53 or 54 bits, q even when of 54
FNormal(q, e) ==
  IF BBitLen(q) > 53 THEN [m |-> BShr(q, 1), e |-> e + 1] ELSE [m |-> q, e |-> e]

\* q is the leading 53 bits, c compares the bits cut off with one half
FRoundUp(q, c, e, sticky) ==
  FNormal(IF c > 0 \/ (c = 0 /\ (sticky \/ BIsOdd(q))) THEN BAdd(q, <<1>>) ELSE q, e)

FRoundLen(M, e, sticky, L) ==
  IF L <= 53 THEN [m |-> BShl(M, 53 - L), e |-> e - (53 - L)]
  ELSE FRoundUp(BShr(M, L - 53),
                BCmp(BLowBits(M, L - 53), BShl(<<1>>, L - 54)),
                e + L - 53, sticky)

\* M * 2^e, plus a positive amount below one unit of M when sticky, rounded to
\* 53 significant bits, to nearest, ties to even
FRound(M, e, sticky) ==
  IF M = <<>> THEN FZero ELSE FRoundLen(M, e, sticky, BBitLen(M))

FFromInt(n) == FRound(BFromInt(n), 0, FALSE)

\* -1, 0, 1 as x < y, x = y, x > y
FCmp(x, y) ==
  IF x.m = <<>> /\ y.m = <<>> THEN 0
  ELSE IF x.m = <<>> THEN -1
  ELSE IF y.m = <<>> THEN 1
  ELSE IF x.e < y.e THEN -1
  ELSE IF x.e > y.e THEN 1
  ELSE BCmp(x.m, y.m)

FMin(a, b) == IF a < b THEN a ELSE b

FAddAt(x, y, lo) == FRound(BAdd(BShl(x.m, x.e - lo), BShl(y.m, y.e - lo)), lo, FALSE)

FAdd(x, y) ==
  IF x.m = <<>> THEN y
  ELSE IF y.m = <<>> THEN x
  ELSE FAddAt(x, y, FMin(x.e, y.e))

FMul(x, y) ==
  IF x.m = <<>> \/ y.m = <<>> THEN FZero
  ELSE FRound(BMul(x.m, y.m), x.e + y.e, FALSE)

FDivRound(qr, e) == FRound(qr[1], e, qr[2] # <<>>)

\* x / y for y # 0
FDiv(x, y) ==
  IF x.m = <<>> THEN FZero
  ELSE FDivRound(BDivMod(BShl(x.m, 55), y.m), x.e - y.e - 55)

FSqrtAt(x, k) == FDivRound(BSqrtRem(BShl(x.m, k)), (x.e - k) \div 2)

FSqrt(x) ==
  IF x.m = <<>> THEN FZero
  ELSE FSqrtAt(x, IF x.e % 2 = 0 THEN 58 ELSE 57)

FOne == FFromInt(1)

(***************************************************************************)
(* Text.  A string is a sequence of UTF-16 code units, each written as a   *)
(* one-character string; the code units outside ASCII carry a name.        *)
(***************************************************************************)
UpperCase == <<"A", "B", "C", "D", "E", "F", "G", "H", "I", "J", "K", "L", "M",
               "N", "O", "P", "Q", "R", "S", "T", "U", "V", "W", "X", "Y", "Z">>
LowerCase == <<"a", "b", "c", "d", "e", "f", "g", "h", "i", "j", "k", "l", "m",
               "n", "o", "p", "q", "r", "s", "t", "u", "v", "w", "x", "y", "z">>
Digits == {"0", "1", "2", "3", "4", "5", "6", "7", "8", "9"}

\* g-breve, u-umlaut, s-cedilla, dotless i, o-umlaut, c-cedilla and their capitals
TurkishLower == <<"g-breve", "u-umlaut", "s-cedilla", "dotless-i", "o-umlaut", "c-cedilla">>
TurkishUpper == <<"G-breve", "U-umlaut", "S-cedilla", "I-dot", "O-umlaut", "C-cedilla">>

Range(f) == {f[i] : i \in DOMAIN f}

\* \s of a JavaScript regular expression, the members the inputs can hold
WhiteSpace == {" ", "\t", "\n", "\r"}

\* \w of a JavaScript regular expression without the u flag: [A-Za-z0-9_]
IsWordChar(c) == c \in Range(UpperCase) \cup Range(LowerCase) \cup Digits \cup {"_"}

\* String.prototype.toLowerCase on one code unit: I-dot (U+0130) becomes
\* i followed by the combining dot above (U+0307)
LowerOf(c) ==
  IF c \in Range(UpperCase)
  THEN <<LowerCase[CHOOSE i \in DOMAIN UpperCase : UpperCase[i] = c]>>
  ELSE IF c = "I-dot" THEN <<"i", "combining-dot">>
  ELSE IF c \in Range(TurkishUpper)
  THEN <<TurkishLower[CHOOSE i \in DOMAIN TurkishUpper : TurkishUpper[i] = c]>>
  ELSE <<c>>

RECURSIVE Concat(_)
Concat(ss) ==
  IF ss = <<>> THEN <<>>
  ELSE IF Len(ss) = 1 THEN ss[1]
  ELSE Concat(SubSeq(ss, 1, Len(ss) \div 2))
       \o Concat(SubSeq(ss, (Len(ss) \div 2) + 1, Len(ss)))

toLowerCase(text) == Concat([i \in 1..Len(text) |-> LowerOf(text[i])])

\* the k-th smallest member of a finite set of integers
Nth(S, k) == CHOOSE x \in S : Cardinality({y \in S : y < x}) = k - 1

\* String.prototype.split(sep+) for a separator class: the pieces between
\* maximal runs of separators, in order, the empty pieces at both ends kept
SplitOn(text, separators) ==
  LET n      == Len(text)
      starts == {i \in 1..n : text[i] \notin separators /\ (i = 1 \/ text[i - 1] \in separators)}
      EndOf(i) == CHOOSE j \in i..n :
                    /\ \A k \in i..j : text[k] \notin separators
                    /\ (j = n \/ text[j + 1] \in separators)
      runs   == [k \in 1..Cardinality(starts) |->
                   SubSeq(text, Nth(starts, k), EndOf(Nth(starts, k)))]
  IN  (IF n = 0 \/ text[1] \in separators THEN << <<>> >> ELSE <<>>)
      \o runs
      \o (IF n > 0 /\ text[n] \in separators THEN << <<>> >> ELSE <<>>)

\* a trim that removes nothing
trimNothing(text) == text

\* String.prototype.trim
trim(text) ==
  LET ink == {i \in 1..Len(text) : text[i] \notin WhiteSpace}
  IN  IF ink = {} THEN <<>>
      ELSE SubSeq(text, CHOOSE i \in ink : \A j \in ink : i <= j,
                        CHOOSE i \in ink : \A j \in ink : i >= j)

\* a slice that takes the first k characters
sliceFirst(text, k) ==
  IF k >= Len(text) THEN text ELSE SubSeq(text, 1, k)

\* String.prototype.slice(-k) for k >= 0: slice(-0) is slice(0), the whole string
sliceLast(text, k) ==
  IF k = 0 \/ k >= Len(text) THEN text
  ELSE SubSeq(text, Len(text) - k + 1, Len(text))

(***************************************************************************)
(* RAGSystem: the pure methods.                                            *)
(***************************************************************************)
\* this.stopWords, set in the constructor
stopWords ==
  { <<"v", "e">>, <<"v", "e", "y", "a">>, <<"a", "m", "a">>,
    <<"c-cedilla", "u-umlaut", "n", "k", "u-umlaut">>, <<"k", "i">>,
    <<"i", "c-cedilla", "i", "n">>, <<"o", "l", "a", "r", "a", "k">>,
    <<"i", "l", "e">>, <<"d", "a">>, <<"d", "e">>,
    <<"t", "h", "e">>, <<"i", "s">>, <<"a", "r", "e">>, <<"a", "n", "d">>,
    <<"o", "r">>, <<"b", "u", "t">>, <<"b", "e", "c", "a", "u", "s", "e">>,
    <<"i", "n">>, <<"o", "n">>, <<"a", "t">>, <<"t", "o">>, <<"f", "o", "r">>,
    <<"o", "f">>, <<"w", "i", "t", "h">>, <<"b", "y">> }

\* a character class without the Turkish letters
IsTokenCharAscii(c) == IsWordChar(c) \/ c \in WhiteSpace

\* the characters the replace of tokenize keeps: \w, \s and the Turkish letters
IsTokenChar(c) ==
  IsWordChar(c) \/ c \in WhiteSpace
  \/ c \in Range(TurkishLower) \cup Range(TurkishUpper)

\* the separators of /[.!?]+/
SentenceEnds == {".", "!", "?"}

tokenize(text) ==
  LET lower   == toLowerCase(text)
      cleaned == [i \in 1..Len(lower) |->
                    IF IsTokenChar(lower[i]) THEN lower[i] ELSE " "]
  IN  SelectSeq(SplitOn(cleaned, WhiteSpace),
                LAMBDA token : Len(token) > 2 /\ token \notin stopWords)

\* the loop of chunkDocument from sentence i on
RECURSIVE ChunkLoop(_, _, _, _, _, _)
ChunkLoop(sentences, i, chunks, currentChunk, maxLength, overlap) ==
  IF i > Len(sentences)
  THEN (IF trim(currentChunk) # <<>>
        THEN Append(chunks, trim(currentChunk))
        ELSE chunks)
  ELSE LET sentence == sentences[i] IN
       IF Len(currentChunk \o sentence) > maxLength /\ Len(currentChunk) > 0
       THEN LET pushed == Append(chunks, trim(currentChunk))
                next   == sentence \o <<".">>
            IN  ChunkLoop(sentences, i + 1, pushed,
                          IF Len(pushed) > 0
                          THEN sliceLast(pushed[Len(pushed)], overlap) \o next
                          ELSE next,
                          maxLength, overlap)
       ELSE ChunkLoop(sentences, i + 1, chunks,
                      currentChunk \o sentence \o <<".">>, maxLength, overlap)

\* a chunker that derives nothing from a body without text
chunkDocumentOfText(content, maxLength, overlap) ==
  IF trim(content) = <<>> THEN <<>>
  ELSE ChunkLoop(SplitOn(content, SentenceEnds), 1, <<>>, <<>>, maxLength, overlap)

\* a chunker that cuts every chunk down to maxLength characters
chunkDocumentCut(content, maxLength, overlap) ==
  [k \in 1..Len(ChunkLoop(SplitOn(content, SentenceEnds), 1, <<>>, <<>>,
                          maxLength, overlap)) |->
     sliceFirst(ChunkLoop(SplitOn(content, SentenceEnds), 1, <<>>, <<>>,
                          maxLength, overlap)[k], maxLength)]

chunkDocument(content, maxLength, overlap) ==
  ChunkLoop(SplitOn(content, SentenceEnds), 1, <<>>, <<>>, maxLength, overlap)

\* the values of a division that are no finite number
NaN == [nan |-> TRUE]
Infinity == [infinite |-> TRUE]

\* the properties every object inherits from Object.prototype whose names
\* tokenize can return (lower case, longer than two characters)
Constructor == <<"c", "o", "n", "s", "t", "r", "u", "c", "t", "o", "r">>
Proto == <<"_", "_", "p", "r", "o", "t", "o", "_", "_">>

\* the first loop of calculateTFIDF: the object termFreq, its keys in insertion
\* order (the order of first occurrence; no token of the inputs is an array
\* index), each with the number of its occurrences.  termFreq['__proto__'] is
\* Object.prototype and assigning a string to it does nothing: the token never
\* becomes a key.
termCounts(tokens) ==
  [k \in 1..Cardinality({i \in 1..Len(tokens) :
                           /\ tokens[i] # Proto
                           /\ \A j \in 1..(i - 1) : tokens[j] # tokens[i]}) |->
     [term |-> tokens[Nth({i \in 1..Len(tokens) :
                             /\ tokens[i] # Proto
                             /\ \A j \in 1..(i - 1) : tokens[j] # tokens[i]}, k)],
      n |-> Cardinality({i \in 1..Len(tokens) :
                           tokens[i] = tokens[Nth({i2 \in 1..Len(tokens) :
                             /\ tokens[i2] # Proto
                             /\ \A j \in 1..(i2 - 1) : tokens[j] # tokens[i2]}, k)]})]]

\* the second loop of calculateTFIDF: termFreq[term] / totalTokens for every
\* key.  termFreq['constructor'] || 0 is the function Object, to which + 1
\* appends "1": the value of that key is a string, and the division gives NaN.
termWeights(tf, totalTokens) ==
  [k \in 1..Len(tf) |->
     [term |-> tf[k].term,
      w |-> IF tf[k].term = Constructor
            THEN NaN
            ELSE FDiv(FFromInt(tf[k].n), FFromInt(totalTokens))]]

\* A term-weight vector is the object calculateTFIDF returns: its keys in
\* insertion order, each with its weight
calculateTFIDF(tokens) == termWeights(termCounts(tokens), Len(tokens))

Keys(vec) == [i \in 1..Len(vec) |-> vec[i].term]

\* vec[term] || 0
ValueOr0(vec, term) ==
  IF \E i \in 1..Len(vec) : vec[i].term = term
  THEN vec[CHOOSE i \in 1..Len(vec) : vec[i].term = term].w
  ELSE FZero

\* the loop of cosineSimilarity from term i on
RECURSIVE CosineLoop(_, _, _, _, _, _, _)
CosineAdd(terms, i, vec1, vec2, dotProduct, norm1, norm2, val1, val2) ==
  CosineLoop(terms, i + 1, vec1, vec2,
             FAdd(dotProduct, FMul(val1, val2)),
             FAdd(norm1, FMul(val1, val1)),
             FAdd(norm2, FMul(val2, val2)))

CosineLoop(terms, i, vec1, vec2, dotProduct, norm1, norm2) ==
  IF i > Len(terms) THEN <<dotProduct, norm1, norm2>>
  ELSE CosineAdd(terms, i, vec1, vec2, dotProduct, norm1, norm2,
                 ValueOr0(vec1, terms[i]), ValueOr0(vec2, terms[i]))

CosineResult(dotProduct, norm1, norm2) ==
  IF norm1 = FZero \/ norm2 = FZero THEN FZero
  ELSE FDiv(dotProduct, FMul(FSqrt(norm1), FSqrt(norm2)))

CosineOf(sums) == CosineResult(sums[1], sums[2], sums[3])

cosineSimilarity(vec1, vec2) ==
  CosineOf(CosineLoop(Keys(vec1) \o SelectSeq(Keys(vec2),
                                              LAMBDA t : t \notin Range(Keys(vec1))),
                      1, vec1, vec2, FZero, FZero, FZero))

\* a slice that keeps one entry more
sliceThrough(seq, end) ==
  SubSeq(seq, 1, IF end + 1 < Len(seq) THEN end + 1 ELSE Len(seq))

\* a slice that starts behind the first entry
sliceAfterFirst(seq, end) ==
  SubSeq(seq, 2, IF end < Len(seq) THEN end ELSE Len(seq))

\* Array.prototype.slice(0, end): a negative end counts from the end of the array
sliceTo(seq, end) ==
  SubSeq(seq, 1, IF end >= 0
                 THEN (IF end < Len(seq) THEN end ELSE Len(seq))
                 ELSE (IF Len(seq) + end > 0 THEN Len(seq) + end ELSE 0))

\* a sort that is not stable: entries of equal score come out in reverse
sortByScoreUnstable(scores) ==
  [k \in 1..Len(scores) |->
     scores[CHOOSE i \in 1..Len(scores) :
              Cardinality({j \in 1..Len(scores) :
                             \/ FCmp(scores[j].score, scores[i].score) > 0
                             \/ (FCmp(scores[j].score, scores[i].score) = 0 /\ j > i)})
              = k - 1]]

\* Array.prototype.sort with the comparator (a, b) => b.score - a.score: the
\* sort is stable, so an entry moves behind exactly the entries of greater
\* score and the earlier entries of equal score
sortByScore(scores) ==
  [k \in 1..Len(scores) |->
     scores[CHOOSE i \in 1..Len(scores) :
              Cardinality({j \in 1..Len(scores) :
                             \/ FCmp(scores[j].score, scores[i].score) > 0
                             \/ (FCmp(scores[j].score, scores[i].score) = 0 /\ j < i)})
              = k - 1]]

\* Canonicalize of a regular expression with the i flag and without the u
\* flag: the upper case of the code unit, unless that leaves the code units
\* above 127 for those below (dotless i keeps itself; I-dot is its own upper
\* case)
Canonicalize(c) ==
  IF c \in Range(LowerCase)
  THEN UpperCase[CHOOSE i \in DOMAIN LowerCase : LowerCase[i] = c]
  ELSE IF c \in Range(TurkishLower) \ {"dotless-i"}
  THEN TurkishUpper[CHOOSE i \in DOMAIN TurkishLower : TurkishLower[i] = c]
  ELSE c

\* \b between the characters p and p + 1 of the text: a word character on
\* exactly one side
IsBoundary(text, p) ==
  (p >= 1 /\ IsWordChar(text[p])) # (p < Len(text) /\ IsWordChar(text[p + 1]))

\* /\btoken\b/i matches the text from character i on
MatchesAt(text, token, i) ==
  /\ i + Len(token) - 1 <= Len(text)
  /\ IsBoundary(text, i - 1)
  /\ IsBoundary(text, i + Len(token) - 1)
  /\ \A k \in 1..Len(token) :
       Canonicalize(text[i + k - 1]) = Canonicalize(token[k])

\* the matches of a global scan, which goes on behind each match: the indices
\* (from 0) of the matches among the candidates from character `from` on
RECURSIVE ScanMatches(_, _, _)
ScanMatches(candidates, length, from) ==
  IF \A i \in candidates : i < from THEN <<>>
  ELSE <<Nth({i \in candidates : i >= from}, 1) - 1>>
         \o ScanMatches(candidates, length,
                        Nth({i \in candidates : i >= from}, 1) + length)

\* Array.from(text.matchAll(regex)).map(match => match.index); text.match(regex)
\* has as many entries, or is null when there is none
matchAll(text, token) ==
  ScanMatches({i \in 1..Len(text) : MatchesAt(text, token, i)}, Len(token), 1)

\* highlightMatches: one record for every query token, in the order of the
\* tokens, that the text matches
highlightMatches(text, queryTokens) ==
  SelectSeq([k \in 1..Len(queryTokens) |->
               [token |-> queryTokens[k],
                count |-> Len(matchAll(text, queryTokens[k])),
                positions |-> matchAll(text, queryTokens[k])]],
            LAMBDA highlight : highlight.count > 0)

(***************************************************************************)
(* The inputs: documents, queries and options are drawn from these sets.   *)
(***************************************************************************)
W(c) == <<c, c, c>>
Sp == <<" ">>
Dot == <<".">>

\* a value the caller passes as null
Null == "<null>"

\* source documents {title, content, category, tags}
Doc(title, content, category) ==
  [title |-> title, content |-> content, category |-> category, tags |-> <<>>]

Pool ==
  { Doc("d1", W("a") \o Sp \o W("b") \o Sp \o W("c") \o Sp \o W("c"), "math"),
    Doc("d2", W("a") \o Dot \o Sp \o W("a"), "fen"),
    Doc("d3", <<"T", "h", "e">> \o Sp \o W("B") \o Sp \o W("a"), "math"),
    Doc("d4", <<"O", "k", "!">>, "fen") }

\* the content of a source document that has no content property: a value that
\* is no text
Undefined == <<"<undefined>">>

\* what the files of rag_data hold: a well-formed document, and one without
\* content
ExternalPool ==
  { Doc("d1", W("a") \o Sp \o W("b") \o Sp \o W("c") \o Sp \o W("c"), "math"),
    Doc("bad", Undefined, "math") }

\* n copies of the character c
Repeat(c, n) == [i \in 1..n |-> c]

\* n copies of the text t
RECURSIVE RepeatText(_, _)
RepeatText(t, n) == IF n = 0 THEN <<>> ELSE t \o RepeatText(t, n - 1)

\* two words too long for two sentences with them to share a chunk of 500
LongX == Repeat("x", 250)
LongY == Repeat("y", 250)

\* documents of two sentences that chunkDocument splits into two chunks; the 50
\* characters the second chunk takes over from the first are one-letter words.
\* In d5 both sentences are the same word, in d6 they are different words.
LongPool ==
  { Doc("d5", LongX \o RepeatText(<<" ", "b">>, 25) \o Dot \o Sp \o LongX, "math"),
    Doc("d6", LongX \o RepeatText(<<" ", "b">>, 25) \o Dot \o Sp \o LongY, "fen") }

\* what callers of addDocument pass: a plain document, one with empty content,
\* one of two chunks, and one without content
IngestPool ==
  { Doc("d1", W("a") \o Sp \o W("b") \o Sp \o W("c") \o Sp \o W("c"), "math"),
    Doc("d0", <<>>, "fen"),
    Doc("d5", LongX \o RepeatText(<<" ", "b">>, 25) \o Dot \o Sp \o LongX, "math"),
    Doc("bad", Undefined, "math") }

\* the seven documents of loadDefaultKnowledge: their titles and categories,
\* and the leading words of their contents
defaultDocuments ==
  << Doc("TYT Matematik Konulari",
         <<"T", "Y", "T", " ", "M", "a", "t", ":", " ", "S", "a", "y", ".">>,
         "tyt-matematik"),
     Doc("TYT Turkce Konulari",
         <<"T", "Y", "T", " ", "T", "u-umlaut", "r", ":", " ", "D", "i", "l", ".">>,
         "tyt-turkce"),
     Doc("TYT Fen Bilimleri",
         <<"T", "Y", "T", " ", "F", "e", "n", ":", " ", "(", "A", "t", "o", "m", ")", ".">>,
         "tyt-fen"),
     Doc("AYT Matematik",
         <<"A", "Y", "T", " ", "M", "a", "t", ":", " ", "I-dot", "n", "t", ".">>,
         "ayt-matematik"),
     Doc("Ingilizce Gramer Konulari",
         <<"I-dot", "n", "g", ":", " ", "T", "e", "n", "s", "e", "s", ".">>,
         "english-grammar"),
     Doc("Python Temel Konulari",
         <<"P", "y", "t", "h", "o", "n", ":", " ", "L", "o", "o", "p", "s", ".">>,
         "python-basics"),
     Doc("Saglik ve Calisma Tavsiyeleri",
         <<"U", "y", "k", "u", " ", "(", "7", "-", "8", " ", "s", "a", "a", "t", ")", ".">>,
         "health-study") >>

Queries ==
  { <<>>, <<" ", " ">>, W("a"), W("b") \o Sp \o W("a"),
    W("a") \o Sp \o W("b") \o Sp \o W("c") \o Sp \o W("c"), W("z") }

Categories == {Null, "", "math", "fen"}

\* how many entries a caller asks for
MaxResultsRange == {-1, 0, 1, 2, 5}

PointOne == FDiv(FFromInt(1), FFromInt(10))
OneHalf == FDiv(FFromInt(1), FFromInt(2))

MinScores == {FZero, PointOne, OneHalf, FOne}

(***************************************************************************)
(* The embeddings and the similarities of the texts above, tabulated: the  *)
(* engine's calculateTFIDF(tokenize(text)) and cosineSimilarity(v1, v2),   *)
(* computed once for every text and every pair of vectors of the model.    *)
(***************************************************************************)
DefaultMaxLength == 500
DefaultOverlap == 50

ChunkTexts ==
  UNION {Range(chunkDocument(d.content, DefaultMaxLength, DefaultOverlap)) :
           d \in {x \in Pool \cup LongPool \cup IngestPool : x.content # Undefined}
                   \cup Range(defaultDocuments)}

EmbeddingTable ==
  [text \in ChunkTexts \cup Queries |-> calculateTFIDF(tokenize(text))]

TokenTable ==
  [text \in ChunkTexts \cup Queries |-> tokenize(text)]

\* highlightMatches(chunk.content, queryTokens) for every query and chunk text
HighlightTable ==
  [query \in ChunkTexts \cup Queries |->
     [text \in ChunkTexts |-> highlightMatches(text, TokenTable[query])]]

SimilarityTable ==
  [vec1 \in {EmbeddingTable[q] : q \in Queries \cup ChunkTexts} |->
     [vec2 \in {EmbeddingTable[t] : t \in ChunkTexts} |->
        cosineSimilarity(vec1, vec2)]]

(***************************************************************************)
(* Bounds of the model.                                                    *)
(***************************************************************************)
\* documents a caller ingests through addDocument outside init
MaxIngest == 1
\* documents the external corpus directory holds
MaxExternal == 2
\* calls of init
MaxInitRuns == 1
\* documents of an index on which search is studied
MaxIndexDocs == 3

(***************************************************************************)
(* RAGSystem: the state.                                                   *)
(*   knowledgeBase, documentChunks: the two Maps, as the sequences of      *)
(*     their values in insertion order (keys are fresh, so set never       *)
(*     overwrites); a document id is the number uuid.v4 is taken to draw   *)
(*     (nextId, always fresh), a chunk id is <<document id, index>>        *)
(*   initPc, loadIdx: where a running init() stands                        *)
(*   initRuns, ingestCalls: how many calls of init and of addDocument have  *)
(*     been made                                                           *)
(*   ragData: the directory ../../rag_data, absent or with its documents   *)
(*   last: the last call made on the object and how it ended               *)
(* The chat route: the state.                                              *)
(*   activeSessions: the Map of the chat sessions, as the sequence of its   *)
(*     values; the requests of the model are all for one session            *)
(*   chatPc: how many POST /message handlers stand at an await, how many    *)
(*     requests were accepted and how many calls of the AI have failed      *)
(***************************************************************************)
VARIABLES initialized, knowledgeBase, documentChunks, nextId,
          initPc, loadIdx, initRuns, ingestCalls, ragData, last,
          activeSessions, chatPc

vars == <<initialized, knowledgeBase, documentChunks, nextId,
          initPc, loadIdx, initRuns, ingestCalls, ragData, last,
          activeSessions, chatPc>>

NoRequests == [pending |-> 0, accepted |-> 0, failed |-> 0]

\* a chunk as addDocument stores it has no embedding property
NoEmbedding == [defined |-> FALSE, vec |-> <<>>]

NoCall == [op |-> "none"]

RECURSIVE SeqsUpTo(_, _)
SeqsUpTo(S, n) ==
  IF n = 0 THEN {<<>>}
  ELSE LET shorter == SeqsUpTo(S, n - 1)
       IN  shorter \cup {Append(q, x) : q \in {r \in shorter : Len(r) = n - 1}, x \in S}

\* an id source that hands out the same id again
uuidRepeated(n) == 1

\* uuidv4(): the n-th id drawn is one no earlier call returned
uuidv4(n) == n

\* Map.prototype.set, the map being the sequence of its values in insertion
\* order: the value of a key the map holds is replaced in place
MapSet(map, value) ==
  IF \E i \in 1..Len(map) : map[i].id = value.id
  THEN [i \in 1..Len(map) |-> IF map[i].id = value.id THEN value ELSE map[i]]
  ELSE Append(map, value)

RECURSIVE MapSetAll(_, _)
MapSetAll(map, values) ==
  IF values = <<>> THEN map
  ELSE MapSetAll(MapSet(map, Head(values)), Tail(values))

\* addDocument: the new values of <<knowledgeBase, documentChunks>>
addDocument(kb, dc, id, document) ==
  LET chunks == chunkDocument(document.content, DefaultMaxLength, DefaultOverlap)
  IN  << MapSet(kb, [id |-> id, title |-> document.title,
                     content |-> document.content,
                     category |-> document.category, tags |-> document.tags,
                     chunks |-> Len(chunks)]),
         MapSetAll(dc, [index0 \in 1..Len(chunks) |->
                  [id |-> <<id, index0 - 1>>, parentId |-> id,
                   title |-> document.title, content |-> chunks[index0],
                   category |-> document.category, tags |-> document.tags,
                   index |-> index0 - 1, embedding |-> NoEmbedding]]) >>

\* a division that drops the fraction
DivideWhole(a, b) ==
  IF b = 0 THEN (IF a = 0 THEN NaN ELSE Infinity)
  ELSE FFromInt(a \div b)

\* a / b of two sizes: 0 / 0 is NaN and a / 0 is Infinity for a > 0
Divide(a, b) ==
  IF b = 0 THEN (IF a = 0 THEN NaN ELSE Infinity)
  ELSE FDiv(FFromInt(a), FFromInt(b))

\* the category of every chunk, one entry per chunk
getCategoriesOfAll(dc) == [k \in 1..Len(dc) |-> dc[k].category]

\* getCategories: the categories of the chunks, each once, in the order in
\* which the Set met them
getCategories(dc) ==
  [k \in 1..Cardinality({i \in 1..Len(dc) :
                           \A j \in 1..(i - 1) : dc[j].category # dc[i].category}) |->
     dc[Nth({i \in 1..Len(dc) :
               \A j \in 1..(i - 1) : dc[j].category # dc[i].category}, k)].category]

getDocumentStats(kb, dc) ==
  [totalDocuments |-> Len(kb),
   totalChunks |-> Len(dc),
   categories |-> getCategories(dc),
   avgChunksPerDocument |-> Divide(Len(dc), Len(kb))]

\* createEmbeddings: every chunk gets its embedding
createEmbeddings(dc) ==
  [i \in 1..Len(dc) |->
     [dc[i] EXCEPT !.embedding =
        [defined |-> TRUE, vec |-> EmbeddingTable[dc[i].content]]]]

\* option k of an options object, or its default when the property is absent
Option(options, k, default) == IF k \in DOMAIN options THEN options[k] ELSE default

DefaultMaxResults == 5

\* category && ...: null and the empty string are falsy
Truthy(category) == category \notin {Null, ""}

\* a test that lets every chunk through
InScopeAny(chunk, category) == TRUE

\* the category test of search: category && chunk.category !== category skips
InScope(chunk, category) == ~(Truthy(category) /\ chunk.category # category)

\* the entry search pushes for a chunk
scoreEntry(chunk, queryEmbedding, queryHighlights) ==
  [chunkId |-> chunk.id,
   score |-> SimilarityTable[queryEmbedding][chunk.embedding.vec],
   chunk |-> chunk,
   highlights |-> queryHighlights[chunk.content]]

\* a loop that keeps a chunk only when its score is above minScore
searchScoresAbove(inScope, queryEmbedding, queryHighlights, minScore) ==
  SelectSeq([i \in 1..Len(inScope) |-> scoreEntry(inScope[i], queryEmbedding, queryHighlights)],
            LAMBDA entry : FCmp(entry.score, minScore) > 0)

\* the scoring loop of search over the chunks its category test lets through:
\* the entries pushed, in the order of the Map
searchScores(inScope, queryEmbedding, queryHighlights, minScore) ==
  SelectSeq([i \in 1..Len(inScope) |-> scoreEntry(inScope[i], queryEmbedding, queryHighlights)],
            LAMBDA entry : FCmp(entry.score, minScore) >= 0)

\* Object.keys(undefined) in cosineSimilarity throws a TypeError at the first
\* chunk in scope that has no embedding
searchLoop(inScope, queryEmbedding, queryHighlights, maxResults, minScore) ==
  IF \E i \in 1..Len(inScope) : ~inScope[i].embedding.defined
  THEN [outcome |-> "TypeError", results |-> <<>>]
  ELSE [outcome |-> "ok",
        results |-> sliceTo(sortByScore(searchScores(inScope, queryEmbedding, queryHighlights,
                                                     minScore)),
                            maxResults)]

\* search past its guard
searchBody(dc, query, options) ==
  searchLoop(SelectSeq(dc, LAMBDA chunk :
                             InScope(chunk, Option(options, "category", Null))),
             EmbeddingTable[query],
             HighlightTable[query],
             Option(options, "maxResults", DefaultMaxResults),
             Option(options, "minScore", PointOne))

\* a guard that lets every call through
searchGuardOpen(isInitialized) == TRUE

\* the guard of search
searchGuard(isInitialized) == isInitialized

search(isInitialized, dc, query, options) ==
  IF ~searchGuard(isInitialized)
  THEN [outcome |-> "NotInitialized", results |-> <<>>]
  ELSE searchBody(dc, query, options)

\* Array.prototype.join
RECURSIVE join(_, _)
join(parts, sep) ==
  IF parts = <<>> THEN <<>>
  ELSE IF Len(parts) = 1 THEN parts[1]
  ELSE parts[1] \o sep \o join(Tail(parts), sep)

AnswerMaxResults == 3

\* a context text that always appends the supplementary part
answerContextAlways(searchResults, context) ==
  join([i \in 1..Len(searchResults) |-> searchResults[i].chunk.content],
       <<"\n", "\n">>)
  \o <<"\n", "\n">> \o join(context, <<"\n">>)

\* the context text answerQuestion builds
answerContext(searchResults, context) ==
  (IF Len(searchResults) > 0
   THEN join([i \in 1..Len(searchResults) |-> searchResults[i].chunk.content],
             <<"\n", "\n">>)
   ELSE <<>>)
  \o (IF Len(context) > 0 THEN <<"\n", "\n">> \o join(context, <<"\n">>) ELSE <<>>)

answerOf(found, context) ==
  IF found.outcome # "ok"
  THEN [outcome |-> found.outcome, results |-> <<>>,
        context |-> <<>>, hasRelevantInfo |-> FALSE]
  ELSE [outcome |-> "ok", results |-> found.results,
        context |-> answerContext(found.results, context),
        hasRelevantInfo |-> Len(found.results) > 0]

\* answerQuestion: what it returns, or the error of its search
answerQuestion(isInitialized, dc, question, context) ==
  answerOf(search(isInitialized, dc, question, [maxResults |-> AnswerMaxResults]),
           context)

\* the options objects callers pass: every property given, or none
OptionsRange ==
  {[category |-> c, maxResults |-> n, minScore |-> m] :
     c \in Categories, n \in MaxResultsRange, m \in MinScores}
  \cup {<<>>}

\* the supplementary context lines a caller passes to answerQuestion
Contexts == {<<>>, <<W("x"), W("y")>>}

(***************************************************************************)
(* Spec: the object from its construction on, under calls of init,         *)
(* addDocument, search and answerQuestion in any order.  init is async:    *)
(* other calls run between its awaits.                                     *)
(***************************************************************************)
Init ==
  /\ initialized = FALSE
  /\ knowledgeBase = <<>>
  /\ documentChunks = <<>>
  /\ nextId = 1
  /\ initPc = "idle"
  /\ loadIdx = 1
  /\ initRuns = 0
  /\ ingestCalls = 0
  /\ ragData \in {[exists |-> FALSE, docs |-> <<>>]}
                 \cup {[exists |-> TRUE, docs |-> d] :
                         d \in SeqsUpTo(ExternalPool, MaxExternal)}
  /\ last = NoCall
  /\ activeSessions = <<>>
  /\ chatPc = NoRequests

\* init() is called: it enters loadKnowledgeBase
InitCall ==
  /\ initPc \in {"idle", "failed"}
  /\ initRuns < MaxInitRuns
  /\ initPc' = "loadKnowledgeBase"
  /\ loadIdx' = 1
  /\ initRuns' = initRuns + 1
  /\ UNCHANGED <<activeSessions, chatPc, initialized, knowledgeBase, documentChunks, nextId,
                 ingestCalls, ragData, last>>

\* document.content.split exists: chunkDocument throws a TypeError otherwise
HasContent(document) == document.content # Undefined

\* loadKnowledgeBase: the next document of the directory is added.  When
\* addDocument throws, nothing catches the error before init, which logs it
\* and throws it again: the documents that follow are not read.  The uuid the
\* failed call drew is in no record, so nextId stays.
LoadExternalDocument ==
  /\ initPc = "loadKnowledgeBase"
  /\ ragData.exists
  /\ loadIdx <= Len(ragData.docs)
  /\ IF HasContent(ragData.docs[loadIdx])
     THEN /\ LET added == addDocument(knowledgeBase, documentChunks, uuidv4(nextId),
                                      ragData.docs[loadIdx])
             IN  /\ knowledgeBase' = added[1]
                 /\ documentChunks' = added[2]
          /\ nextId' = nextId + 1
          /\ loadIdx' = loadIdx + 1
          /\ UNCHANGED initPc
     ELSE /\ initPc' = "failed"
          /\ UNCHANGED <<knowledgeBase, documentChunks, nextId, loadIdx>>
  /\ UNCHANGED <<activeSessions, chatPc, initialized, initRuns, ingestCalls, ragData, last>>

\* loadKnowledgeBase: past the directory, the defaults are loaded when the
\* chunk Map is empty
LoadCheckEmpty ==
  /\ initPc = "loadKnowledgeBase"
  /\ ~ragData.exists \/ loadIdx > Len(ragData.docs)
  /\ initPc' = IF Len(documentChunks) = 0
               THEN "loadDefaultKnowledge" ELSE "processDocuments"
  /\ loadIdx' = 1
  /\ UNCHANGED <<activeSessions, chatPc, initialized, knowledgeBase, documentChunks, nextId,
                 initRuns, ingestCalls, ragData, last>>

\* loadDefaultKnowledge: the next default document is added
LoadDefaultDocument ==
  /\ initPc = "loadDefaultKnowledge"
  /\ loadIdx <= Len(defaultDocuments)
  /\ LET added == addDocument(knowledgeBase, documentChunks, uuidv4(nextId),
                              defaultDocuments[loadIdx])
     IN  /\ knowledgeBase' = added[1]
         /\ documentChunks' = added[2]
  /\ nextId' = nextId + 1
  /\ loadIdx' = loadIdx + 1
  /\ initPc' = IF loadIdx = Len(defaultDocuments)
               THEN "processDocuments" ELSE initPc
  /\ UNCHANGED <<activeSessions, chatPc, initialized, initRuns, ingestCalls, ragData, last>>

\* init: this.processDocuments is not a method of the class, the call throws
\* a TypeError, which init logs and throws again
ProcessDocuments ==
  /\ initPc = "processDocuments"
  /\ initPc' = "failed"
  /\ UNCHANGED <<activeSessions, chatPc, initialized, knowledgeBase, documentChunks, nextId, loadIdx,
                 initRuns, ingestCalls, ragData, last>>

\* a caller ingests a document; id is the uuid the call drew
AddDocument ==
  /\ ingestCalls < MaxIngest
  /\ \E document \in IngestPool :
       IF HasContent(document)
       THEN LET added == addDocument(knowledgeBase, documentChunks, uuidv4(nextId),
                                     document)
            IN  /\ knowledgeBase' = added[1]
                /\ documentChunks' = added[2]
                /\ last' = [op |-> "addDocument", id |-> uuidv4(nextId),
                            outcome |-> "ok"]
       ELSE /\ last' = [op |-> "addDocument", id |-> uuidv4(nextId),
                            outcome |-> "TypeError"]
            /\ UNCHANGED <<knowledgeBase, documentChunks>>
  /\ nextId' = nextId + 1
  /\ ingestCalls' = ingestCalls + 1
  /\ UNCHANGED <<activeSessions, chatPc, initialized, initPc, loadIdx, initRuns, ragData>>

\* the record of a call of search and of answerQuestion
searchCall(query, options, r) ==
  [op |-> "search", query |-> query, options |-> options,
   outcome |-> r.outcome, results |-> r.results]

answerCall(question, context, r) ==
  [op |-> "answerQuestion", query |-> question,
   options |-> [maxResults |-> AnswerMaxResults], supplementary |-> context,
   outcome |-> r.outcome, results |-> r.results,
   context |-> r.context, hasRelevantInfo |-> r.hasRelevantInfo]

\* a search that takes the chunks it returns out of the index
SearchOverConsuming(queries, optionsRange) ==
  /\ \E query \in queries, options \in optionsRange :
       /\ last' = searchCall(query, options,
                             search(initialized, documentChunks, query, options))
       /\ documentChunks'
            = SelectSeq(documentChunks,
                        LAMBDA chunk : \A i \in 1..Len(last'.results) :
                                         last'.results[i].chunkId # chunk.id)
  /\ UNCHANGED <<activeSessions, chatPc, initialized, knowledgeBase, nextId, initPc,
                 loadIdx, initRuns, ingestCalls, ragData>>

\* a caller searches
SearchOver(queries, optionsRange) ==
  /\ \E query \in queries, options \in optionsRange :
       last' = searchCall(query, options,
                          search(initialized, documentChunks, query, options))
  /\ UNCHANGED <<activeSessions, chatPc, initialized, knowledgeBase, documentChunks, nextId, initPc,
                 loadIdx, initRuns, ingestCalls, ragData>>

\* a caller asks a question
AnswerOver(questions, contexts) ==
  /\ \E question \in questions, context \in contexts :
       last' = answerCall(question, context,
                          answerQuestion(initialized, documentChunks, question, context))
  /\ UNCHANGED <<activeSessions, chatPc, initialized, knowledgeBase, documentChunks, nextId, initPc,
                 loadIdx, initRuns, ingestCalls, ragData>>

\* the calls made while the index is being built: a blank and a plain query,
\* with no options and with every option given
\* GET /health reads the statistics, whatever init has done so far
GetDocumentStats ==
  /\ last' = [op |-> "getDocumentStats", outcome |-> "ok",
              stats |-> getDocumentStats(knowledgeBase, documentChunks)]
  /\ UNCHANGED <<activeSessions, chatPc, initialized, knowledgeBase, documentChunks, nextId, initPc,
                 loadIdx, initRuns, ingestCalls, ragData>>

\* the category parameter of a request: absent, one that chunks have, one that
\* no chunk has
RouteCategories == {Null, "math", "tarih"}

\* GET /documents: without a category the answer is 400.  With one, the route
\* calls RAGSystem.getRAGDocumentsByCategory, which the RAGSystem object does
\* not have: the call throws a TypeError and the catch answers 500.
GetDocuments ==
  /\ \E category \in RouteCategories :
       last' = [op |-> "GET /documents", category |-> category,
                status |-> IF ~Truthy(category) THEN 400 ELSE 500]
  /\ UNCHANGED <<activeSessions, chatPc, initialized, knowledgeBase, documentChunks, nextId, initPc,
                 loadIdx, initRuns, ingestCalls, ragData>>

EarlyQueries == {<<" ", " ">>, W("a")}
EarlyOptions == {<<>>, [category |-> "math", maxResults |-> 1, minScore |-> FZero]}

Search == SearchOver(EarlyQueries, EarlyOptions)

AnswerQuestion == AnswerOver(EarlyQueries, {<<>>})

Next ==
  \/ InitCall
  \/ LoadExternalDocument
  \/ LoadCheckEmpty
  \/ LoadDefaultDocument
  \/ ProcessDocuments
  \/ AddDocument
  \/ Search
  \/ AnswerQuestion
  \/ GetDocumentStats
  \/ GetDocuments

Spec == Init /\ [][Next]_vars

(***************************************************************************)
(* SearchSpec: search and answerQuestion as functions of the object's     *)
(* fields, which are drawn as inputs: initialized is set and the index is  *)
(* any one that addDocument and createEmbeddings build from up to          *)
(* MaxIndexDocs documents.  One call is applied to it.  (In Spec no run of *)
(* init gets this far, see ProcessDocuments.)                              *)
(***************************************************************************)
RECURSIVE addDocuments(_, _, _)
addDocuments(kbdc, id, docs) ==
  IF docs = <<>> THEN kbdc
  ELSE addDocuments(addDocument(kbdc[1], kbdc[2], uuidv4(id), Head(docs)), id + 1,
                    Tail(docs))

\* indexes of four documents that all hold the word of the query aaa
LargeIndexes == [1..4 -> {d \in Pool : d.title \in {"d1", "d2"}}]

SearchInit ==
  /\ initialized = TRUE
  /\ \E docs \in SeqsUpTo(Pool, MaxIndexDocs) \cup {<<d>> : d \in LongPool}
                 \cup LargeIndexes :
       LET built == addDocuments(<< <<>>, <<>> >>, 1, docs)
       IN  /\ knowledgeBase = built[1]
           /\ documentChunks = createEmbeddings(built[2])
           /\ nextId = Len(docs) + 1
  /\ initPc = "done"
  /\ loadIdx = 1
  /\ initRuns = 1
  /\ ingestCalls = 0
  /\ ragData = [exists |-> FALSE, docs |-> <<>>]
  /\ last = NoCall
  /\ activeSessions = <<>>
  /\ chatPc = NoRequests

SearchAny == SearchOver(Queries, OptionsRange)

AnswerAny == AnswerOver(Queries, Contexts)

\* the index holds one document and the query is the text of one of its chunks
SearchOwnText ==
  /\ Len(knowledgeBase) = 1
  /\ SearchOver({documentChunks[k].content : k \in 1..Len(documentChunks)}, {<<>>})

SearchNext == last = NoCall /\ (SearchAny \/ AnswerAny \/ SearchOwnText)

SearchSpec == SearchInit /\ [][SearchNext]_vars

(***************************************************************************)
(* ChatSpec: POST /message requests on one chat session.  The handler       *)
(* pushes the user's message, awaits the search and the call of the AI,     *)
(* and on an answer with a text pushes it and cuts the list; a call that    *)
(* is rejected, times out or answers without a text throws into the catch   *)
(* block.  (A request with an invalid message is answered 400 before the   *)
(* session is touched.)                                                    *)
(***************************************************************************)
\* handlers of one session that stand at an await at the same time
MaxPending == 1
\* requests accepted
MaxAccepted == 27
\* calls of the AI that fail
MaxFailed == 2

\* the messages the session keeps in memory after an answer
MessageLimit == 50

\* session.messages of the session of the model, [] before it is created
sessionMessages(sessions) ==
  IF sessions = <<>> THEN <<>> ELSE sessions[1].messages

\* the request is accepted: the session is created if there is none, and the
\* user's message is pushed
PostMessage ==
  /\ chatPc.pending < MaxPending
  /\ chatPc.accepted < MaxAccepted
  /\ activeSessions'
       = << [id |-> "session",
             messages |-> Append(sessionMessages(activeSessions),
                                 [role |-> "user",
                                  request |-> chatPc.accepted + 1])] >>
  /\ chatPc' = [chatPc EXCEPT !.pending = @ + 1, !.accepted = @ + 1]
  /\ UNCHANGED <<initialized, knowledgeBase, documentChunks, nextId, initPc,
                 loadIdx, initRuns, ingestCalls, ragData, last>>

\* the AI answers with a text: the answer is pushed and the list is cut to
\* its last 50 messages
GeminiResponds ==
  /\ chatPc.pending > 0
  /\ LET pushed == Append(sessionMessages(activeSessions),
                          [role |-> "assistant", request |-> chatPc.accepted])
     IN  activeSessions'
           = << [id |-> "session",
                 messages |-> IF Len(pushed) > MessageLimit
                              THEN sliceLast(pushed, MessageLimit)
                              ELSE pushed] >>
  /\ chatPc' = [chatPc EXCEPT !.pending = @ - 1]
  /\ UNCHANGED <<initialized, knowledgeBase, documentChunks, nextId, initPc,
                 loadIdx, initRuns, ingestCalls, ragData, last>>

\* the call of the AI fails or its answer has no text: the handler goes to
\* its catch block and answers with the error
GeminiFails ==
  /\ chatPc.pending > 0
  /\ chatPc.failed < MaxFailed
  /\ chatPc' = [chatPc EXCEPT !.pending = @ - 1, !.failed = @ + 1]
  /\ UNCHANGED <<initialized, knowledgeBase, documentChunks, nextId, initPc,
                 loadIdx, initRuns, ingestCalls, ragData, last, activeSessions>>

ChatInit == Init /\ ~ragData.exists

ChatNext == PostMessage \/ GeminiResponds \/ GeminiFails

ChatSpec == ChatInit /\ [][ChatNext]_vars

(***************************************************************************)
(* ReadSpec: an initialized index under any number of calls of search,      *)
(* answerQuestion and getDocumentStats (which calls getCategories), in any  *)
(* order.  None of the four methods awaits, so each call is one step.       *)
(***************************************************************************)
ReadSpec == SearchInit /\ [][Search \/ AnswerQuestion \/ GetDocumentStats]_vars

(***************************************************************************)
(* CosineSpec: cosineSimilarity as a function of two texts, each given by   *)
(* the object tf calculateTFIDF counts for it: the terms of the text and    *)
(* how often each occurs.  A count is absent, small, or that of a text of   *)
(* 2^27 repetitions of the term.                                            *)
(***************************************************************************)
BigCount == 2^27

Counts == {0, 1, 2, BigCount}

CountTerms == <<W("a"), W("b")>>

TermCountsRange ==
  {SelectSeq([k \in 1..Len(CountTerms) |-> [term |-> CountTerms[k], n |-> c[k]]],
             LAMBDA entry : entry.n > 0) :
     c \in [1..Len(CountTerms) -> Counts]}

\* tokens.length of a text with these counts
RECURSIVE totalTokens(_)
totalTokens(tf) == IF tf = <<>> THEN 0 ELSE Head(tf).n + totalTokens(Tail(tf))

cosineCall(tf1, tf2, vec1, vec2) ==
  [op |-> "cosineSimilarity", tf1 |-> tf1, tf2 |-> tf2,
   vec1 |-> vec1, vec2 |-> vec2, score |-> cosineSimilarity(vec1, vec2)]

\* the similarity of two texts is computed
CosineSimilarity ==
  /\ last = NoCall
  /\ \E tf1 \in TermCountsRange, tf2 \in TermCountsRange :
       last' = cosineCall(tf1, tf2, termWeights(tf1, totalTokens(tf1)),
                          termWeights(tf2, totalTokens(tf2)))
  /\ UNCHANGED <<activeSessions, chatPc, initialized, knowledgeBase, documentChunks, nextId, initPc,
                 loadIdx, initRuns, ingestCalls, ragData>>

CosineInit == Init /\ ~ragData.exists

CosineSpec == CosineInit /\ [][CosineSimilarity]_vars

(***************************************************************************)
(* ChunkSpec: chunkDocument as a function of its three arguments.  The     *)
(* bodies are all the texts of up to MaxBody characters over a letter, a    *)
(* blank and two of the sentence ends; the lengths and overlaps are small   *)
(* enough for such bodies to be closed into several chunks.                 *)
(***************************************************************************)
MaxBody == 5

BodyChars == {"a", " ", ".", "!"}

Bodies == SeqsUpTo(BodyChars, MaxBody)

MaxLengths == {2, 3, MaxBody + 1}

Overlaps == {0, 1, 3}

chunkCall(content, maxLength, overlap) ==
  [op |-> "chunkDocument", content |-> content, maxLength |-> maxLength,
   overlap |-> overlap, chunks |-> chunkDocument(content, maxLength, overlap)]

\* a body is chunked
ChunkDocument ==
  /\ last = NoCall
  /\ \E content \in Bodies, maxLength \in MaxLengths, overlap \in Overlaps :
       last' = chunkCall(content, maxLength, overlap)
  /\ UNCHANGED <<activeSessions, chatPc, initialized, knowledgeBase, documentChunks, nextId, initPc,
                 loadIdx, initRuns, ingestCalls, ragData>>

ChunkInit == Init /\ ~ragData.exists

ChunkSpec == ChunkInit /\ [][ChunkDocument]_vars

(***************************************************************************)
(* VectorSpec: calculateTFIDF as a function of the token sequence, which    *)
(* is any of up to MaxTokens tokens that tokenize can return.               *)
(***************************************************************************)
MaxTokens == 3

TokenPool == {W("a"), W("b"), W("c"), Constructor, Proto}

vectorCall(tokens) ==
  [op |-> "calculateTFIDF", tokens |-> tokens, vector |-> calculateTFIDF(tokens)]

\* a token sequence is vectorized
CalculateTFIDF ==
  /\ last = NoCall
  /\ \E tokens \in SeqsUpTo(TokenPool, MaxTokens) : last' = vectorCall(tokens)
  /\ UNCHANGED <<activeSessions, chatPc, initialized, knowledgeBase, documentChunks, nextId, initPc,
                 loadIdx, initRuns, ingestCalls, ragData>>

VectorInit == Init /\ ~ragData.exists

VectorSpec == VectorInit /\ [][CalculateTFIDF]_vars

(***************************************************************************)
(* TokenizeSpec: tokenize applied to every text of up to MaxText characters *)
(* over a letter, a capital, a blank and a full stop, and to some texts     *)
(* with Turkish letters.                                                   *)
(***************************************************************************)
MaxText == 7
TextChars == {"a", "M", " ", "."}

TurkishTexts ==
  { <<"I-dot", "n", "t", " ", "C-cedilla", "A", "Y">>,
    <<"c-cedilla", "u-umlaut", "n", "k", "u-umlaut", " ", "s", "a", "y", "dotless-i">>,
    <<"a", "_", "1", "\t", "a", "m", "a", "\n", "(", "T", "h", "e", ")">> }

tokenizeCall(text) == [op |-> "tokenize", text |-> text, tokens |-> tokenize(text)]

\* a text is tokenized
Tokenize ==
  /\ last = NoCall
  /\ \E text \in SeqsUpTo(TextChars, MaxText) \cup TurkishTexts :
       last' = tokenizeCall(text)
  /\ UNCHANGED <<activeSessions, chatPc, initialized, knowledgeBase, documentChunks, nextId, initPc,
                 loadIdx, initRuns, ingestCalls, ragData>>

TokenizeSpec == VectorInit /\ [][Tokenize]_vars

(***************************************************************************)
(* The claims.                                                             *)
(***************************************************************************)
\* a call of init has returned or thrown
InitReturned == initRuns > 0 /\ initPc \in {"done", "failed"}

AllEmbedded == \A i \in 1..Len(documentChunks) : documentChunks[i].embedding.defined

Queried == last.op \in {"search", "answerQuestion"}

\* C1: starting from an empty index with no external corpus directory, a call
\* of init ends in success: the built-in seed corpus is ingested, every passage
\* has its term-weight vector and initialized is true, so that a search issued
\* afterwards is not refused as not initialized.
C1_InitCompletes ==
  (~ragData.exists /\ ingestCalls = 0 /\ InitReturned)
    => /\ initialized
       /\ Len(knowledgeBase) = Len(defaultDocuments)
       /\ AllEmbedded

\* C2: a call of search or answerQuestion made while initialized is false
\* (before init, while init runs, after init has failed) fails with the
\* not-initialized error and returns no list.
C2_NotInitializedFails ==
  [][(~initialized /\ last' # last /\ last'.op \in {"search", "answerQuestion"})
       => last'.outcome = "NotInitialized"]_vars

\* search was refused while init was loading the seed corpus
C2_Witness ==
  /\ ~initialized
  /\ initPc = "loadDefaultKnowledge"
  /\ Len(documentChunks) > 0
  /\ Queried
  /\ last.outcome = "NotInitialized"

\* String.prototype.trim leaves nothing of the text
IsBlank(text) == \A i \in 1..Len(text) : text[i] \in WhiteSpace

\* C3: search and answerQuestion called with an empty or whitespace-only
\* string fail with an input-validation error and return no result list.
C3_BlankQueryRejected ==
  (Queried /\ IsBlank(last.query)) => last.outcome = "ValidationError"

\* C4: whenever initialized is true every stored passage has a term-weight
\* vector, and the passages addDocument stores are stored with their vectors.
C4_StoredPassagesHaveVectors ==
  /\ initialized => AllEmbedded
  /\ last.op = "addDocument"
       => \A i \in 1..Len(documentChunks) :
            documentChunks[i].parentId = last.id
              => documentChunks[i].embedding.defined

\* search or answerQuestion returned its list
Found == Queried /\ last.outcome = "ok"

\* the options of the last call, with the defaults of search
askedCategory == Option(last.options, "category", Null)
askedMaxResults == Option(last.options, "maxResults", DefaultMaxResults)
askedMinScore == Option(last.options, "minScore", PointOne)

\* stored passage k is of the category asked for, or none was asked for
Requested(k) ==
  askedCategory = Null \/ documentChunks[k].category = askedCategory

\* the score of stored passage k for the query of the last call
ScoreOf(k) ==
  SimilarityTable[EmbeddingTable[last.query]][documentChunks[k].embedding.vec]

Qualifies(k) == Requested(k) /\ FCmp(ScoreOf(k), askedMinScore) >= 0

Returned(k) ==
  \E i \in 1..Len(last.results) : last.results[i].chunkId = documentChunks[k].id

\* where the passage with this id stands in the index
PositionOf(id) == CHOOSE k \in 1..Len(documentChunks) : documentChunks[k].id = id

\* C5: the list search returns is ordered by score descending, and results of
\* equal score stand in the order in which their passages were inserted.
C5_SortedStable ==
  Found =>
    \A i \in 1..Len(last.results), j \in 1..Len(last.results) :
      i < j =>
        /\ FCmp(last.results[i].score, last.results[j].score) >= 0
        /\ FCmp(last.results[i].score, last.results[j].score) = 0
             => PositionOf(last.results[i].chunkId) < PositionOf(last.results[j].chunkId)

\* three results: two of equal positive score, and one the sort has moved
\* behind a passage inserted after it
C5_Witness ==
  /\ Found
  /\ Len(last.results) = 3
  /\ \E i \in 1..2 :
       /\ FCmp(last.results[i].score, last.results[i + 1].score) = 0
       /\ FCmp(last.results[i].score, FZero) > 0
  /\ \E i \in 1..2 :
       /\ FCmp(last.results[i].score, last.results[i + 1].score) > 0
       /\ PositionOf(last.results[i].chunkId) > PositionOf(last.results[i + 1].chunkId)

\* C6: every result has a score >= minScore, and when fewer than maxResults
\* results are returned every passage in scope whose score is >= minScore is
\* among them.
C6_MinScoreFilter ==
  Found =>
    /\ \A i \in 1..Len(last.results) :
         FCmp(last.results[i].score, askedMinScore) >= 0
    /\ Len(last.results) < askedMaxResults
         => \A k \in 1..Len(documentChunks) : Qualifies(k) => Returned(k)

\* fewer than maxResults results, one of them exactly at the threshold, and a
\* passage in scope below the threshold left out
C6_Witness ==
  /\ Found
  /\ Len(last.results) < askedMaxResults
  /\ FCmp(askedMinScore, FZero) > 0
  /\ \E i \in 1..Len(last.results) :
       FCmp(last.results[i].score, askedMinScore) = 0
  /\ \E k \in 1..Len(documentChunks) :
       Requested(k) /\ FCmp(ScoreOf(k), askedMinScore) < 0 /\ ~Returned(k)

\* C7: for maxResults >= 0 search returns at most maxResults results, and no
\* passage in scope with a score >= minScore that was left out has a score
\* strictly greater than that of a returned result.
C7_TopMaxResults ==
  (Found /\ askedMaxResults >= 0) =>
    /\ Len(last.results) <= askedMaxResults
    /\ \A k \in 1..Len(documentChunks) :
         (Qualifies(k) /\ ~Returned(k))
           => \A i \in 1..Len(last.results) :
                FCmp(ScoreOf(k), last.results[i].score) <= 0

\* the list is cut: a passage that qualifies is left out, one inserted before
\* a returned passage of greater score
C7_Witness ==
  /\ Found
  /\ askedMaxResults >= 1
  /\ Len(last.results) = askedMaxResults
  /\ \E k \in 1..Len(documentChunks) :
       /\ Qualifies(k)
       /\ ~Returned(k)
       /\ \E i \in 1..Len(last.results) :
            /\ FCmp(ScoreOf(k), last.results[i].score) < 0
            /\ k < PositionOf(last.results[i].chunkId)

\* C8: when a category is given every result is a passage of exactly that
\* category, and when none is given the passages of all categories are in
\* scope.
C8_CategoryExact ==
  Found =>
    /\ askedCategory # Null
         => \A i \in 1..Len(last.results) :
              last.results[i].chunk.category = askedCategory
    /\ (askedCategory = Null /\ Len(last.results) < askedMaxResults)
         => \A k \in 1..Len(documentChunks) :
              FCmp(ScoreOf(k), askedMinScore) >= 0 => Returned(k)

\* C8 as amended: when a non-empty category is given every result is a passage
\* of exactly that category; when the category is null, absent or the empty
\* string the passages of all categories are in scope.
C8_NonEmptyCategoryExact ==
  Found =>
    /\ askedCategory \notin {Null, ""}
         => \A i \in 1..Len(last.results) :
              last.results[i].chunk.category = askedCategory
    /\ (askedCategory \in {Null, ""} /\ Len(last.results) < askedMaxResults)
         => \A k \in 1..Len(documentChunks) :
              FCmp(ScoreOf(k), askedMinScore) >= 0 => Returned(k)

\* a category was asked for: a passage of it is returned, and a passage of
\* another category with a score at or above the threshold is not
C8_Witness ==
  /\ Found
  /\ askedCategory \notin {Null, ""}
  /\ Len(last.results) > 0
  /\ Len(last.results) < askedMaxResults
  /\ \E k \in 1..Len(documentChunks) :
       /\ documentChunks[k].category # askedCategory
       /\ FCmp(ScoreOf(k), askedMinScore) >= 0
       /\ FCmp(ScoreOf(k), FZero) > 0
       /\ ~Returned(k)

\* C9: the score is 0 when the query or the passage has zero norm, and every
\* score search returns with minScore = 0 is within [0, 1].
C9_ScoreInUnitRange ==
  (Found /\ askedMinScore = FZero) =>
    \A i \in 1..Len(last.results) :
      /\ FCmp(last.results[i].score, FZero) >= 0
      /\ FCmp(last.results[i].score, FOne) <= 0
      /\ (EmbeddingTable[last.query] = <<>> \/ last.results[i].chunk.embedding.vec = <<>>)
           => last.results[i].score = FZero

\* the number of occurrences of a term in a text, as a bignum
CountOf(tf, term) ==
  IF \E i \in 1..Len(tf) : tf[i].term = term
  THEN BFromInt(tf[CHOOSE i \in 1..Len(tf) : tf[i].term = term].n)
  ELSE BFromInt(0)

\* the two texts have the same distinct terms, with proportional counts
Proportional(tf1, tf2) ==
  /\ Range(Keys(tf1)) = Range(Keys(tf2))
  /\ \A a \in Range(Keys(tf1)), b \in Range(Keys(tf1)) :
       BMul(CountOf(tf1, a), CountOf(tf2, b)) = BMul(CountOf(tf1, b), CountOf(tf2, a))

\* C10: the score is 1 only when the two texts have the same distinct terms
\* with proportional counts.
C10_ScoreOneOnlyIfProportional ==
  (last.op = "cosineSimilarity" /\ FCmp(last.score, FOne) = 0)
    => Proportional(last.tf1, last.tf2)

\* the index holds a single document and the last call was a search, with the
\* default options, for the exact text of its passage k
OwnTextSearched(k) ==
  /\ last.op = "search"
  /\ last.outcome = "ok"
  /\ last.options = <<>>
  /\ Len(knowledgeBase) = 1
  /\ documentChunks[k].content = last.query

C12_MalformedSkipped ==
  (ragData.exists /\ InitReturned /\ initRuns = 1 /\ ingestCalls = 0)
    => /\ \A i \in 1..Len(ragData.docs) :
            HasContent(ragData.docs[i])
              => \E k \in 1..Len(knowledgeBase) :
                   /\ knowledgeBase[k].title = ragData.docs[i].title
                   /\ knowledgeBase[k].content = ragData.docs[i].content
       /\ \A k \in 1..Len(knowledgeBase) : knowledgeBase[k].content # Undefined

\* the records of old are those at the same places of new, embeddings aside
Kept(old, new) ==
  /\ Len(old) <= Len(new)
  /\ \A i \in 1..Len(old) :
       IF "embedding" \in DOMAIN old[i]
       THEN [old[i] EXCEPT !.embedding = NoEmbedding]
              = [new[i] EXCEPT !.embedding = NoEmbedding]
       ELSE old[i] = new[i]

\* a step in which addDocument stored a document
IngestStep == nextId' # nextId /\ (last' = last \/ last'.outcome = "ok")

\* C13: chunk ids are pairwise distinct and every chunk's parentId is the id of
\* exactly one stored document; an ingest, also of a document ingested before,
\* adds one document record and at least one chunk and leaves every record of
\* before as it was.
C13_FreshIdentifiers ==
  /\ [](/\ \A i, j \in 1..Len(documentChunks) :
              i # j => documentChunks[i].id # documentChunks[j].id
        /\ \A i \in 1..Len(documentChunks) :
              Cardinality({k \in 1..Len(knowledgeBase) :
                             knowledgeBase[k].id = documentChunks[i].parentId}) = 1)
  /\ [][/\ Kept(knowledgeBase, knowledgeBase')
        /\ Kept(documentChunks, documentChunks')
        /\ IngestStep => /\ Len(knowledgeBase') = Len(knowledgeBase) + 1
                         /\ Len(documentChunks') > Len(documentChunks)]_vars

\* the same source document was ingested twice
C13_Witness ==
  \E i, j \in 1..Len(knowledgeBase) :
    /\ i < j
    /\ knowledgeBase[i].title = knowledgeBase[j].title
    /\ knowledgeBase[i].content = knowledgeBase[j].content
    /\ knowledgeBase[i].id # knowledgeBase[j].id
    /\ \E k \in 1..Len(documentChunks) : documentChunks[k].parentId = knowledgeBase[i].id
    /\ \E k \in 1..Len(documentChunks) : documentChunks[k].parentId = knowledgeBase[j].id

\* the chunks stored for the document at place k of knowledgeBase
ChunksOf(k) ==
  {i \in 1..Len(documentChunks) : documentChunks[i].parentId = knowledgeBase[k].id}

\* C14: every stored document has at least one stored chunk that references it:
\* chunkDocument derived at least one chunk from its content.
C14_DocumentHasChunk ==
  \A k \in 1..Len(knowledgeBase) :
    /\ knowledgeBase[k].chunks >= 1
    /\ ChunksOf(k) # {}

\* a document with empty content is stored, and a chunk with it
C14_Witness ==
  \E k \in 1..Len(knowledgeBase) :
    /\ knowledgeBase[k].content = <<>>
    /\ ChunksOf(k) # {}

\* C15: getDocumentStats on an index without documents returns, and the average
\* it reports is exactly 0.
C15_EmptyAverageZero ==
  (last.op = "getDocumentStats" /\ last.stats.totalDocuments = 0)
    => /\ last.outcome = "ok"
       /\ last.stats.avgChunksPerDocument = FZero

RECURSIVE SumChunks(_)
SumChunks(kb) == IF kb = <<>> THEN 0 ELSE Head(kb).chunks + SumChunks(Tail(kb))

RECURSIVE SumReferencing(_)
SumReferencing(k) == IF k = 0 THEN 0 ELSE Cardinality(ChunksOf(k)) + SumReferencing(k - 1)

\* a step in which getDocumentStats returned
StatsReturned == last' # last /\ last'.op = "getDocumentStats"

\* C16: the number of stored documents is 0 before any ingest and grows by one
\* with each ingest, and by nothing else; what getDocumentStats returns has that
\* number as its document count, a chunk count that is the sum of the stored
\* documents' chunks properties, which is the number of stored chunks that
\* reference a stored document, and, with at least one document, an average
\* that is the chunk count divided by the document count.
C16_StatsCount ==
  /\ [](nextId = 1 => Len(knowledgeBase) = 0)
  /\ [][/\ Len(knowledgeBase')
             = Len(knowledgeBase) + (IF IngestStep THEN 1 ELSE 0)
        /\ StatsReturned
             => /\ last'.stats.totalDocuments = Len(knowledgeBase)
                /\ last'.stats.totalChunks = SumChunks(knowledgeBase)
                /\ last'.stats.totalChunks = SumReferencing(Len(knowledgeBase))
                /\ last'.stats.totalDocuments >= 1
                     => last'.stats.avgChunksPerDocument
                          = FDiv(FFromInt(last'.stats.totalChunks),
                                 FFromInt(last'.stats.totalDocuments))]_vars

\* statistics of three documents and four chunks were returned
C16_Witness ==
  /\ last.op = "getDocumentStats"
  /\ last.stats.totalDocuments = 3
  /\ last.stats.totalChunks = 4
  /\ last.stats.avgChunksPerDocument = FDiv(FFromInt(4), FFromInt(3))

\* C17: a request for the chunks of a category succeeds and returns exactly the
\* stored chunks of that category, in insertion order; for a category without
\* chunks that is the empty list.
C17_PassagesByCategory ==
  (last.op = "GET /documents" /\ Truthy(last.category))
    => /\ last.status = 200
       /\ [k \in 1..Len(last.documents) |-> last.documents[k].id]
            = [k \in 1..Len(SelectSeq(documentChunks,
                                      LAMBDA chunk : chunk.category = last.category)) |->
                 SelectSeq(documentChunks,
                           LAMBDA chunk : chunk.category = last.category)[k].id]

\* chunkDocument has returned
Chunked == last.op = "chunkDocument"

\* the pieces content.split gives for the body of the call
Segments == SplitOn(last.content, SentenceEnds)

\* text is the first characters of whole
StartsWith(whole, text) ==
  Len(text) <= Len(whole) /\ SubSeq(whole, 1, Len(text)) = text

\* text is the last characters of whole
EndsWith(whole, text) ==
  /\ Len(text) <= Len(whole)
  /\ SubSeq(whole, Len(whole) - Len(text) + 1, Len(whole)) = text

\* text without the white space it starts with
WithoutLeadingSpace(text) ==
  IF \A i \in 1..Len(text) : text[i] \in WhiteSpace THEN <<>>
  ELSE SubSeq(text, CHOOSE i \in 1..Len(text) :
                      /\ text[i] \notin WhiteSpace
                      /\ \A j \in 1..(i - 1) : text[j] \in WhiteSpace,
              Len(text))

\* the last n characters of text, all of it when it has fewer
LastChars(text, n) ==
  IF n >= Len(text) THEN text ELSE SubSeq(text, Len(text) - n + 1, Len(text))

\* C18 as claimed: of two consecutive chunks, the first overlap characters of
\* the later one are a suffix of the earlier one; a body of two segments that
\* together are longer than maxLength gives at least two chunks.
C18_OverlapIsSuffix ==
  Chunked =>
    /\ \A k \in 1..(Len(last.chunks) - 1) :
         EndsWith(last.chunks[k],
                  SubSeq(last.chunks[k + 1], 1,
                         IF last.overlap < Len(last.chunks[k + 1])
                         THEN last.overlap ELSE Len(last.chunks[k + 1])))
    /\ (Len(Segments) = 2 /\ Len(Segments[1]) + Len(Segments[2]) > last.maxLength)
         => Len(last.chunks) >= 2

\* C18: of two consecutive chunks, the later one starts with the last overlap
\* characters of the earlier one (all of it when it has fewer), less the white
\* space these start with; a body of two segments that together are longer than
\* maxLength gives at least two chunks.
C18_OverlapIsTrimmedSuffix ==
  Chunked =>
    /\ \A k \in 1..(Len(last.chunks) - 1) :
         StartsWith(last.chunks[k + 1],
                    WithoutLeadingSpace(LastChars(last.chunks[k], last.overlap)))
    /\ (Len(Segments) = 2 /\ Len(Segments[1]) + Len(Segments[2]) > last.maxLength)
         => Len(last.chunks) >= 2

\* two segments longer than maxLength gave two chunks, and the overlap taken
\* from the first started with white space
C18_Witness ==
  /\ Chunked
  /\ Len(Segments) = 2
  /\ Len(Segments[1]) + Len(Segments[2]) > last.maxLength
  /\ Len(last.chunks) = 2
  /\ last.overlap > 0
  /\ LastChars(last.chunks[1], last.overlap)[1] \in WhiteSpace

\* the segments of the body in order, each followed by one terminator
Terminated(segments) == Concat([i \in 1..Len(segments) |-> segments[i] \o <<".">>])

\* C19 as claimed: a body shorter than maxLength gives exactly one chunk, which
\* is the segments of the body in order, each followed by one terminator.
C19_ShortBodyOneChunk ==
  (Chunked /\ Len(last.content) < last.maxLength)
    => last.chunks = << Terminated(Segments) >>

\* C19: a body shorter than maxLength gives exactly one chunk, which is the
\* segments of the body in order, each followed by one terminator, less the
\* white space the body starts with.
C19_ShortBodyOneTrimmedChunk ==
  (Chunked /\ Len(last.content) < last.maxLength)
    => last.chunks = << WithoutLeadingSpace(Terminated(Segments)) >>

\* a body of several segments that starts with white space and is shorter than
\* maxLength was chunked
C19_Witness ==
  /\ Chunked
  /\ Len(last.content) < last.maxLength
  /\ Len(Segments) >= 2
  /\ last.content[1] \in WhiteSpace
  /\ Len(last.chunks) = 1

\* chunk k without the characters counted as its overlap: the first overlap
\* ones, or as many as the chunk before it has
NewContent(k) ==
  IF k = 1 THEN last.chunks[1]
  ELSE SubSeq(last.chunks[k],
              1 + (IF last.overlap < Len(last.chunks[k - 1])
                   THEN last.overlap ELSE Len(last.chunks[k - 1])),
              Len(last.chunks[k]))

\* chunk k holds the segments from..to, whole and terminated, as its new
\* content.  As claimed: the new content is these and nothing else.  Otherwise:
\* the chunk is these behind the end of the chunk before it, and white space at
\* the start of the chunk is removed.
ChunkIsRun(k, from, to, asClaimed) ==
  IF asClaimed
  THEN NewContent(k) = Terminated(SubSeq(Segments, from, to))
  ELSE IF k = 1
  THEN last.chunks[1] = WithoutLeadingSpace(Terminated(SubSeq(Segments, from, to)))
  ELSE \E j \in 0..Len(last.chunks[k - 1]) :
         last.chunks[k] = WithoutLeadingSpace(LastChars(last.chunks[k - 1], j))
                            \o Terminated(SubSeq(Segments, from, to))

\* the chunks from k on hold the segments from `from` on, in order, each chunk
\* a run of one or more of them
RECURSIVE RunsFrom(_, _, _)
RunsFrom(k, from, asClaimed) ==
  IF k > Len(last.chunks) THEN from = Len(Segments) + 1
  ELSE \E to \in from..Len(Segments) :
         /\ ChunkIsRun(k, from, to, asClaimed)
         /\ RunsFrom(k + 1, to + 1, asClaimed)

\* C20 as claimed: the new content of the chunks, in order, is the segments of
\* the body in order, each whole with its terminator, each in one chunk and
\* none twice or left out, whatever its length.
C20_SegmentsWhole == Chunked => RunsFrom(1, 1, TRUE)

\* C20: every chunk ends with a run of segments of the body, each whole with
\* its terminator, and the runs, in order, are the segments of the body in
\* order, none twice or left out, whatever its length; before its run a chunk
\* has an end of the chunk before it, and white space at the start of a chunk is
\* removed.
C20_SegmentsWholeTrimmed == Chunked => RunsFrom(1, 1, FALSE)

\* a segment longer than maxLength was emitted whole, in a body of several chunks
C20_Witness ==
  /\ Chunked
  /\ Len(last.chunks) >= 2
  /\ \E i \in 1..Len(Segments), k \in 1..Len(last.chunks) :
       /\ Len(Segments[i]) > last.maxLength
       /\ k > 1
       /\ EndsWith(last.chunks[k], Segments[i] \o <<".">>)

\* how often token occurs in tokens
Occurrences(tokens, token) == Cardinality({i \in 1..Len(tokens) : tokens[i] = token})

RECURSIVE SumOccurrences(_, _)
SumOccurrences(tokens, terms) ==
  IF terms = <<>> THEN 0
  ELSE Occurrences(tokens, Head(terms)) + SumOccurrences(tokens, Tail(terms))

\* C21: the vector of a token sequence has the distinct tokens as its keys, each
\* once, and each weight is the number of the token's occurrences divided by
\* the number of tokens, so that the weights add up to 1 (the occurrences of
\* the keys add up to the number of tokens); the empty sequence has the empty
\* vector.
C21_TermFrequencies ==
  last.op = "calculateTFIDF" =>
    /\ last.tokens = <<>> => last.vector = <<>>
    /\ Len(last.vector) = Cardinality(Range(last.tokens))
    /\ Range(Keys(last.vector)) = Range(last.tokens)
    /\ \A k \in 1..Len(last.vector) :
         last.vector[k].w = FDiv(FFromInt(Occurrences(last.tokens, last.vector[k].term)),
                                 FFromInt(Len(last.tokens)))
    /\ SumOccurrences(last.tokens, Keys(last.vector)) = Len(last.tokens)

\* the bodies of the passages of a result list, in the order of the list
BodiesOf(results) == [i \in 1..Len(results) |-> results[i].chunk.content]

\* texts set one after the other with the separator between neighbours
RECURSIVE Separated(_, _)
Separated(texts, separator) ==
  IF Len(texts) = 0 THEN <<>>
  ELSE IF Len(texts) = 1 THEN texts[1]
  ELSE Separated(SubSeq(texts, 1, Len(texts) - 1), separator)
         \o separator \o texts[Len(texts)]

BlankLine == <<"\n", "\n">>

Answered == last.op = "answerQuestion" /\ last.outcome = "ok"

\* C22: answerQuestion returns the results of one search for the question with
\* maxResults 3, minScore 0.1 and no category; hasRelevantInfo is true exactly
\* when that list is not empty; the context text is the bodies of the returned
\* passages in rank order with a blank line between them, followed, exactly
\* when the supplementary context is not empty, by a blank line and the
\* supplementary lines joined by single newlines.
C22_AnswerOfOneSearch ==
  Answered =>
    /\ last.results
         = search(initialized, documentChunks, last.query,
                  [category |-> Null, maxResults |-> 3, minScore |-> PointOne]).results
    /\ Len(last.results) <= 3
    /\ last.hasRelevantInfo <=> last.results # <<>>
    /\ last.context
         = Separated(BodiesOf(last.results), BlankLine)
             \o (IF last.supplementary # <<>>
                 THEN BlankLine \o Separated(last.supplementary, <<"\n">>)
                 ELSE <<>>)

\* a question that more than three passages match, asked with two
\* supplementary lines; and one that nothing matches, asked with none
C22_Witness ==
  /\ Answered
  /\ Len(last.results) = 3
  /\ last.hasRelevantInfo
  /\ Len(last.supplementary) = 2
  /\ Cardinality({k \in 1..Len(documentChunks) :
                    FCmp(ScoreOf(k), PointOne) >= 0}) > 3

\* the categories that occur on the stored passages
StoredCategories == {documentChunks[k].category : k \in 1..Len(documentChunks)}

\* a list that holds exactly the members of the set, each once
ListsOnce(list, set) == Range(list) = set /\ Len(list) = Cardinality(set)

\* C23: getCategories returns every category that occurs on a stored passage
\* exactly once and nothing else, and leaves the passages as they are; as long
\* as no passage has been stored since a call, what the call returned is what
\* the passages stored now give, so a second call returns the same set.
C23_CategoriesOnce ==
  /\ [][StatsReturned
          => /\ ListsOnce(last'.stats.categories, StoredCategories)
             /\ documentChunks' = documentChunks]_vars
  /\ []((last.op = "getDocumentStats"
           /\ last.stats.totalChunks = Len(documentChunks))
          => ListsOnce(last.stats.categories, StoredCategories))

\* documents of the categories math, fen, math are stored and the call
\* returned two categories
C23_Witness ==
  /\ last.op = "getDocumentStats"
  /\ last.stats.totalChunks = Len(documentChunks)
  /\ Len(knowledgeBase) = 3
  /\ knowledgeBase[1].category = knowledgeBase[3].category
  /\ knowledgeBase[2].category # knowledgeBase[1].category
  /\ Len(last.stats.categories) = 2

\* the step is a search with the arguments of the search before it
SearchRepeated ==
  /\ last.op = "search"
  /\ last'.op = "search"
  /\ last'.query = last.query
  /\ last'.options = last.options

\* C24: a call of search, answerQuestion, getCategories or getDocumentStats
\* leaves the documents and the passages with their text, metadata and vector
\* as they are, and a search that follows a search with the same arguments
\* returns the same list.
C24_ReadsChangeNothing ==
  [][/\ knowledgeBase' = knowledgeBase
     /\ documentChunks' = documentChunks
     /\ initialized' = initialized
     /\ SearchRepeated
          => last'.outcome = last.outcome /\ last'.results = last.results]_vars

\* a search has returned a ranked list of several passages of an index of
\* several documents
C24_Witness ==
  /\ Found
  /\ last.op = "search"
  /\ Len(last.results) >= 2
  /\ Len(knowledgeBase) >= 2
  /\ \A k \in 1..Len(documentChunks) : documentChunks[k].embedding.defined

\* the records of a highlight list for a term
RecordsFor(highlights, term) ==
  {j \in 1..Len(highlights) : highlights[j].token = term}

\* the term is one of the words of the passage text
OccursIn(term, text) == term \in Range(TokenTable[text])

\* C25: for every returned result and every distinct term of the query, the
\* highlight list holds exactly one record for the term when the term occurs
\* in the passage text and none when it does not; the count of every record
\* is the number of its offsets and at least 1; and a result has the fields
\* chunkId, score, chunk and highlights and no annotated text.
C25_OneRecordPerTerm ==
  Found =>
    \A i \in 1..Len(last.results) :
      /\ \A term \in Range(TokenTable[last.query]) :
           Cardinality(RecordsFor(last.results[i].highlights, term))
             = IF OccursIn(term, last.results[i].chunk.content) THEN 1 ELSE 0
      /\ \A j \in 1..Len(last.results[i].highlights) :
           /\ last.results[i].highlights[j].count
                = Len(last.results[i].highlights[j].positions)
           /\ last.results[i].highlights[j].count >= 1
      /\ DOMAIN last.results[i] = {"chunkId", "score", "chunk", "highlights"}

\* the words of a text: its maximal runs of characters that are no separators
RECURSIVE WordsOf(_, _)
WordsOf(text, separators) ==
  IF text = <<>> THEN <<>>
  ELSE IF Head(text) \in separators THEN WordsOf(Tail(text), separators)
  ELSE IF \A i \in 1..Len(text) : text[i] \notin separators THEN <<text>>
  ELSE <<SubSeq(text, 1, Nth({i \in 1..Len(text) : text[i] \in separators}, 1) - 1)>>
         \o WordsOf(SubSeq(text, Nth({i \in 1..Len(text) : text[i] \in separators}, 1),
                           Len(text)),
                    separators)

\* the words tokenize keeps: longer than 2 characters and no stop word
IndexTerms(words) ==
  SelectSeq(words, LAMBDA word : Len(word) > 2 /\ word \notin stopWords)

\* letters, digits and the underscore, and the twelve Turkish letters
TermChars ==
  Range(LowerCase) \cup Range(UpperCase) \cup Digits \cup {"_"}
    \cup Range(TurkishLower) \cup Range(TurkishUpper)

Tokenized == last.op = "tokenize"

\* C26 as stated: tokenize returns the white-space-separated words of the
\* lower-cased text that are longer than 2 characters and no stop words, in
\* their order and with their repetitions, and nothing for a blank text.
C26_WhiteSpaceWords ==
  Tokenized =>
    /\ last.tokens = IndexTerms(WordsOf(toLowerCase(last.text), WhiteSpace))
    /\ IsBlank(last.text) => last.tokens = <<>>

\* C26, corrected: tokenize returns the words of the lower-cased text, a word
\* being a maximal run of letters, digits, underscores and Turkish letters
\* (every other character separates words as white space does), that are
\* longer than 2 characters and no stop words, in their order and with their
\* repetitions, and nothing for a blank text.
C26_TermCharWords ==
  Tokenized =>
    /\ last.tokens
         = IndexTerms(WordsOf(toLowerCase(last.text),
                              Range(toLowerCase(last.text)) \ TermChars))
    /\ IsBlank(last.text) => last.tokens = <<>>

\* a text of two words around a full stop, one of them a stop word in
\* capitals, gave one token
C26_Witness ==
  /\ Tokenized
  /\ last.text = <<"a", "a", "a", ".", "a", "M", "a">>
  /\ last.tokens = <<W("a")>>

\* part stands somewhere in whole
Contains(whole, part) ==
  \E i \in 0..(Len(whole) - Len(part)) : SubSeq(whole, i + 1, i + Len(part)) = part

\* C27: every chunk is at most maxLength characters long, unless it contains
\* a segment of the body that is by itself longer than maxLength.
C27_ChunkWithinMaxLength ==
  Chunked =>
    \A k \in 1..Len(last.chunks) :
      \/ Len(last.chunks[k]) <= last.maxLength
      \/ \E s \in 1..Len(Segments) :
           /\ Len(Segments[s]) > last.maxLength
           /\ Contains(last.chunks[k], Segments[s])

\* the buffer a chunk is pushed from, as claimed: the last overlap characters
\* of the chunk closed before it (all of it when it has fewer, none for the
\* first chunk), then the segments from..to, each with its terminator
SeededBuffer(k, from, to) ==
  (IF k = 1 THEN <<>> ELSE LastChars(last.chunks[k - 1], last.overlap))
    \o Terminated(SubSeq(Segments, from, to))

\* the chunks from k on are pushed from such buffers, which take up the
\* segments from `from` on in order
RECURSIVE SeededFrom(_, _)
SeededFrom(k, from) ==
  IF k > Len(last.chunks) THEN from = Len(Segments) + 1
  ELSE \E to \in from..Len(Segments) :
         /\ last.chunks[k] = WithoutLeadingSpace(SeededBuffer(k, from, to))
         /\ SeededFrom(k + 1, to + 1)

\* C28: for every overlap >= 0, the buffer of the chunk that follows a closed
\* chunk starts with exactly the last min(overlap, length of the closed chunk)
\* characters of the closed chunk, followed by the new segment; with overlap 0
\* it starts with the new segment.  (A chunk is its buffer less the white
\* space around it.)
C28_SeedIsLastOverlapChars == Chunked => SeededFrom(1, 1)

\* C29: search returns at most max(maxResults, 0) results: none for a
\* maxResults of zero or less.
C29_AtMostMaxResults ==
  (Found /\ last.op = "search")
    => Len(last.results) <= (IF askedMaxResults > 0 THEN askedMaxResults ELSE 0)

\* a POST /message request has been answered
RequestFinished == chatPc'.pending < chatPc.pending

\* C30: when a chat message request has finished, with an answer of the AI
\* or with its failure, the message list of the session holds at most 50
\* messages.
C30_AtMostFiftyMessages ==
  [][RequestFinished => Len(sessionMessages(activeSessions')) <= 50]_vars

====
